---- MODULE Spec2Model ----
(***************************************************************************)
(* Model of the Strudel language server (server/src/server.ts): the        *)
(* capability flags, the document store, the per-document settings cache   *)
(* of pending configuration pulls, the diagnostics pull handler and the    *)
(* validator it runs.                                                      *)
(***************************************************************************)
EXTENDS Integers, Sequences, FiniteSets, TLC

\* ------------------------------------------------------------------ bounds
MaxLen == 4          \* longest enumerated document text (validator inputs)
MaxCap == 3          \* largest enumerated maxErrorCount
MaxObjs == 1         \* TextDocument objects created by open notifications
MaxReqs == 2         \* textDocument/diagnostic requests received
MaxConfig == 1       \* workspace/didChangeConfiguration notifications, pull supported
MaxGlobalConfig == 2 \* workspace/didChangeConfiguration notifications, pull unsupported

\* --------------------------------------------------------------- alphabet
\* Characters are one-character strings, a text is a sequence of them.
UpperChars == {"A", "B", "C", "D", "E", "F"}
WordChars == UpperChars \cup {"a", "e", "l", "t", "1", "_"}
EolChars == {"\n", "\r"}
Alphabet == {"A", "B", "a", " ", "\n", "\r"}

Scenario1Text == <<"l", "e", "t", " ", "A", "B", "C", " ", "=", " ", "1", ";">>
Scenario2Text == <<"A", "B", " ", "C", "D", " ", "E", "F">>

AllTexts == (UNION {[1..n -> Alphabet] : n \in 0..MaxLen}) \cup {Scenario1Text, Scenario2Text}

Min(a, b) == IF a < b THEN a ELSE b

\* ------------------------------------------------- the pattern /\b[A-Z]{2,}\b/g
\* text[k] is the character at offset k-1.
isWordAt(text, k) == k >= 1 /\ k <= Len(text) /\ text[k] \in WordChars

\* \b at offset k: exactly one of the characters at offsets k-1 and k is a word character.
wordBoundary(text, k) == isWordAt(text, k) # isWordAt(text, k + 1)

\* longest run of [A-Z] starting at offset i
RECURSIVE upperRun(_, _)
upperRun(text, i) ==
  IF i < Len(text) /\ text[i + 1] \in UpperChars THEN 1 + upperRun(text, i + 1) ELSE 0

\* the length matched at offset i (0: no match): \b, then the greedy {2,} backs
\* off to the longest length that is followed by \b
matchAt(text, i) ==
  IF ~wordBoundary(text, i) THEN 0
  ELSE LET ok == {n \in 2..upperRun(text, i) : wordBoundary(text, i + n)}
       IN IF ok = {} THEN 0 ELSE CHOOSE n \in ok : \A k \in ok : k <= n

NoMatch == [found |-> FALSE, index |-> 0, length |-> 0]

\* pattern.exec(text) with pattern.lastIndex = lastIndex: the leftmost match at or
\* after lastIndex
RECURSIVE exec(_, _)
exec(text, lastIndex) ==
  IF lastIndex > Len(text) THEN NoMatch
  ELSE IF matchAt(text, lastIndex) > 0
       THEN [found |-> TRUE, index |-> lastIndex, length |-> matchAt(text, lastIndex)]
       ELSE exec(text, lastIndex + 1)

\* ------------------------------------------ TextDocument offsets <-> positions
isEOL(ch) == ch \in EolChars

RECURSIVE computeLineOffsets(_, _, _)
computeLineOffsets(text, i, result) ==
  IF i >= Len(text) THEN result
  ELSE IF isEOL(text[i + 1])
       THEN LET j == IF text[i + 1] = "\r" /\ i + 1 < Len(text) /\ text[i + 2] = "\n"
                     THEN i + 1 ELSE i
            IN computeLineOffsets(text, j + 1, Append(result, j + 1))
       ELSE computeLineOffsets(text, i + 1, result)

getLineOffsets(text) == computeLineOffsets(text, 0, <<0>>)

RECURSIVE ensureBeforeEOL(_, _, _)
ensureBeforeEOL(text, offset, lineOffset) ==
  IF offset > lineOffset /\ isEOL(text[offset])
  THEN ensureBeforeEOL(text, offset - 1, lineOffset)
  ELSE offset

\* the binary search of positionAt: the first index whose line offset exceeds offset
RECURSIVE findLine(_, _, _, _)
findLine(lineOffsets, offset, low, high) ==
  IF low < high
  THEN LET mid == (low + high) \div 2
       IN IF lineOffsets[mid + 1] > offset
          THEN findLine(lineOffsets, offset, low, mid)
          ELSE findLine(lineOffsets, offset, mid + 1, high)
  ELSE low

positionAt(text, off) ==
  LET offset == IF off > Len(text) THEN Len(text) ELSE IF off < 0 THEN 0 ELSE off
      lineOffsets == getLineOffsets(text)
      line == findLine(lineOffsets, offset, 0, Len(lineOffsets)) - 1
  IN [line |-> line,
      character |-> ensureBeforeEOL(text, offset, lineOffsets[line + 1]) - lineOffsets[line + 1]]

offsetAt(text, position) ==
  LET lineOffsets == getLineOffsets(text)
  IN IF position.line >= Len(lineOffsets) THEN Len(text)
     ELSE IF position.line < 0 THEN 0
     ELSE LET lineOffset == lineOffsets[position.line + 1]
              nextLineOffset == IF position.line + 1 < Len(lineOffsets)
                                THEN lineOffsets[position.line + 2] ELSE Len(text)
          IN IF position.character <= 0 THEN lineOffset
             ELSE ensureBeforeEOL(text, Min(lineOffset + position.character, nextLineOffset),
                                  lineOffset)

\* ---------------------------------------------------------------- settings
\* A settings value as the peer can deliver it: an object with maxErrorCount, or null.
settingsOf(n) == [isNull |-> FALSE, maxErrorCount |-> n]
nullSettings == [isNull |-> TRUE, maxErrorCount |-> 0]
defaultSettings == settingsOf(100)

\* --------------------------------------------------------------- validator
\* DiagnosticSeverity is imported from 'vscode' (the editor API), whose Warning is 1.
DiagnosticSeverityWarning == 1

\* What a severity number on the wire means to the peer (protocol DiagnosticSeverity).
protocolSeverity(n) ==
  CASE n = 1 -> "Error" [] n = 2 -> "Warning" [] n = 3 -> "Information"
    [] n = 4 -> "Hint" [] OTHER -> "Unknown"

MessageSuffix == <<" ", "i", "s", " ", "a", "l", "l", " ", "u", "p", "p", "e", "r", "c", "a", "s", "e", ".">>

matchedWord(text, m) == SubSeq(text, m.index + 1, m.index + m.length)

relatedInformationOf(uri, range) ==
  << [location |-> [uri |-> uri, range |-> range], message |-> "Spelling matters"],
     [location |-> [uri |-> uri, range |-> range], message |-> "Especially for names"] >>

\* (variant: related information attached whatever the capability)
errorDiagnosticOfAlwaysRelated(uri, text, m, related) ==
  LET range == [start |-> positionAt(text, m.index),
                end |-> positionAt(text, m.index + m.length)]
  IN [severity |-> DiagnosticSeverityWarning, range |-> range,
      message |-> matchedWord(text, m) \o MessageSuffix, source |-> "strudel",
      relatedInformation |-> relatedInformationOf(uri, range)]

\* the Diagnostic built for the match m
errorDiagnosticOf(uri, text, m, related) ==
  LET range == [start |-> positionAt(text, m.index),
                end |-> positionAt(text, m.index + m.length)]
      base == [severity |-> DiagnosticSeverityWarning,
               range |-> range,
               message |-> matchedWord(text, m) \o MessageSuffix,
               source |-> "strudel"]
  IN IF related
     THEN [severity |-> base.severity, range |-> base.range, message |-> base.message,
           source |-> base.source, relatedInformation |-> relatedInformationOf(uri, range)]
     ELSE base

\* (variant: the cap compared with <=)
underCapInclusive(errors, settings) == errors <= settings.maxErrorCount

\* the loop condition's second operand: errors < settings.maxErrorCount
underCap(errors, settings) == errors < settings.maxErrorCount

\* The while loop of validateTextDocument.  The condition reads settings.maxErrorCount
\* only after a match was found; on null settings that read throws.
RECURSIVE validateLoop(_, _, _, _, _, _, _)
validateLoop(uri, text, settings, related, lastIndex, errors, diagnostics) ==
  LET m == exec(text, lastIndex)
  IN IF ~m.found THEN [threw |-> FALSE, items |-> diagnostics]
     ELSE IF settings.isNull THEN [threw |-> TRUE, items |-> <<>>]
     ELSE IF ~underCap(errors, settings) THEN [threw |-> FALSE, items |-> diagnostics]
     ELSE validateLoop(uri, text, settings, related, m.index + m.length, errors + 1,
                       Append(diagnostics, errorDiagnosticOf(uri, text, m, related)))

\* validateTextDocument after its settings have arrived
validateTextDocument(uri, text, settings, related) ==
  validateLoop(uri, text, settings, related, 0, 0, <<>>)

\* matchCount of the specification: the whole words made of two or more uppercase letters
matchCount(text) ==
  Cardinality({i \in 0..Len(text) :
                 /\ ~isWordAt(text, i)
                 /\ \E n \in 2..(Len(text) - i) :
                      /\ \A k \in (i + 1)..(i + n) : text[k] \in UpperChars
                      /\ ~isWordAt(text, i + n + 1)})

\* ------------------------------------------------------------ session state
URIs == {"u1", "u2"}
DocTexts == {<<"A", "B", " ", "C", "D">>, <<"a", "B">>}
PeerSettings == {settingsOf(1), nullSettings}

VARIABLES
  phase,                 \* "constructed", "initializing" (initialize answered), "initialized"
  hasConfigurationCapability,
  hasWorkspaceFolderCapability,
  hasDiagnosticRelatedInformationCapability,
  initResult,            \* the InitializeResult returned: does it carry workspace.workspaceFolders
  registrations,         \* what onInitialized registered
  globalSettings,
  documentSettings,      \* the Map: uri -> pull handle (0: no entry)
  documents,             \* the TextDocuments store: uri -> TextDocument object (0: not open)
  objs,                  \* the TextDocument objects created so far: object -> its text
  pulls,                 \* the workspace/configuration requests sent so far, each a Thenable
  reqs,                  \* the textDocument/diagnostic requests suspended on a pull, in order
  responses,             \* the diagnostic responses the last handled message produced
  received,              \* textDocument/diagnostic requests received so far
  refreshes,             \* the diagnostics refresh requests sent so far
  configChanges,         \* didChangeConfiguration notifications received so far
  answered,              \* diagnostic responses sent so far
  changeRead,            \* the change.settings the configuration handler last read
  logged,                \* the console lines the last handled message wrote
  completions,           \* the completion items the last handled message returned
  peer,                  \* the capabilities of the initialize request (negotiation alone)
  citem,                 \* the item the completionItem/resolve request carried, if the last
                         \* handled message was one
  vpc, vtext, vsettings, vrelated, vresult   \* one call of the validator on its own

vars == <<phase, hasConfigurationCapability, hasWorkspaceFolderCapability,
          hasDiagnosticRelatedInformationCapability, initResult, registrations,
          globalSettings, documentSettings, documents, objs, pulls, reqs, responses,
          received, refreshes, configChanges, answered, changeRead, logged, completions,
          peer, citem, vpc, vtext, vsettings, vrelated, vresult>>

capVars == <<hasConfigurationCapability, hasWorkspaceFolderCapability,
             hasDiagnosticRelatedInformationCapability>>
validatorVars == <<vpc, vtext, vsettings, vrelated, vresult>>
inputVars == <<peer, citem>>

\* a CompletionItem: detail and documentation are optional fields; data is any JSON value,
\* kept with its type so that === can tell the number 1 from the string "1"
numberData(n) == [type |-> "number", value |-> n]
stringData(n) == [type |-> "string", value |-> n]
undefinedData == [type |-> "undefined", value |-> 0]
completionItem(label, data) ==
  [label |-> label, kind |-> "Text", data |-> data,
   hasDetail |-> FALSE, detail |-> "", hasDocumentation |-> FALSE, documentation |-> ""]
noItem == completionItem("", undefinedData)

NoResponse == [kind |-> "none", error |-> "", items |-> <<>>]
FailedResponse == [kind |-> "failed", error |-> "TypeError", items |-> <<>>]
RejectedResponse == [kind |-> "failed", error |-> "rejected", items |-> <<>>]
FullReport(items) == [kind |-> "full", error |-> "", items |-> items]

\* ------------------------------------------------------------- initialize
CapValues == {"absent", "false", "true"}
truthy(v) == v = "true"

WorkspaceCaps ==
  {[present |-> FALSE, configuration |-> "absent", workspaceFolders |-> "absent"]}
  \cup {[present |-> TRUE, configuration |-> c, workspaceFolders |-> w] :
          c \in CapValues, w \in CapValues}

TextDocumentCaps ==
  {[present |-> FALSE, publishDiagnostics |-> FALSE, relatedInformation |-> "absent"],
   [present |-> TRUE, publishDiagnostics |-> FALSE, relatedInformation |-> "absent"]}
  \cup {[present |-> TRUE, publishDiagnostics |-> TRUE, relatedInformation |-> r] :
          r \in CapValues}

InitializeParams == [workspace : WorkspaceCaps, textDocument : TextDocumentCaps]

\* (variant: the fields are read without testing that their parent objects exist; reading
\* a field of an absent object throws and the request fails)
onInitializeUnguarded(params) ==
  /\ phase = "constructed"
  /\ IF params.workspace.present /\ params.textDocument.present
        /\ params.textDocument.publishDiagnostics
     THEN /\ hasConfigurationCapability' = truthy(params.workspace.configuration)
          /\ hasWorkspaceFolderCapability' = truthy(params.workspace.workspaceFolders)
          /\ hasDiagnosticRelatedInformationCapability' =
               truthy(params.textDocument.relatedInformation)
          /\ initResult' = [returned |-> TRUE,
                            workspaceFolders |-> hasWorkspaceFolderCapability']
     ELSE UNCHANGED <<capVars, initResult>>
  /\ phase' = "initializing"
  /\ responses' = <<>>
  /\ UNCHANGED <<registrations, globalSettings, documentSettings, documents, objs, pulls,
                 reqs, received, refreshes, configChanges, validatorVars, peer>>
  /\ logged' = <<>>
  /\ completions' = <<>>
  /\ citem' = noItem
  /\ UNCHANGED answered
  /\ UNCHANGED changeRead

onInitialize(params) ==
  /\ phase = "constructed"
  /\ hasConfigurationCapability' =
       (params.workspace.present /\ truthy(params.workspace.configuration))
  /\ hasWorkspaceFolderCapability' =
       (params.workspace.present /\ truthy(params.workspace.workspaceFolders))
  /\ hasDiagnosticRelatedInformationCapability' =
       (/\ params.textDocument.present
        /\ params.textDocument.publishDiagnostics
        /\ truthy(params.textDocument.relatedInformation))
  /\ initResult' = [returned |-> TRUE, workspaceFolders |-> hasWorkspaceFolderCapability']
  /\ phase' = "initializing"
  /\ responses' = <<>>
  /\ UNCHANGED <<registrations, globalSettings, documentSettings, documents, objs, pulls,
                 reqs, received, refreshes, configChanges, validatorVars, peer>>
  /\ logged' = <<>>
  /\ completions' = <<>>
  /\ citem' = noItem
  /\ UNCHANGED answered
  /\ UNCHANGED changeRead

\* (variant: the initialized handler clears the workspace-folder flag once it has used it)
onInitializedResetsFlag ==
  /\ phase = "initializing"
  /\ registrations' =
       (IF hasConfigurationCapability THEN {"didChangeConfiguration"} ELSE {})
       \cup (IF hasWorkspaceFolderCapability THEN {"didChangeWorkspaceFolders"} ELSE {})
  /\ phase' = "initialized"
  /\ responses' = <<>>
  /\ hasWorkspaceFolderCapability' = FALSE
  /\ UNCHANGED <<hasConfigurationCapability, hasDiagnosticRelatedInformationCapability,
                 initResult, globalSettings, documentSettings, documents, objs,
                 pulls, reqs, received, refreshes, configChanges, validatorVars, peer>>
  /\ logged' = <<>>
  /\ completions' = <<>>
  /\ citem' = noItem
  /\ UNCHANGED answered
  /\ UNCHANGED changeRead

onInitialized ==
  /\ phase = "initializing"
  /\ registrations' =
       (IF hasConfigurationCapability THEN {"didChangeConfiguration"} ELSE {})
       \cup (IF hasWorkspaceFolderCapability THEN {"didChangeWorkspaceFolders"} ELSE {})
  /\ phase' = "initialized"
  /\ responses' = <<>>
  /\ UNCHANGED <<capVars, initResult, globalSettings, documentSettings, documents, objs,
                 pulls, reqs, received, refreshes, configChanges, validatorVars, peer>>
  /\ logged' = <<>>
  /\ completions' = <<>>
  /\ citem' = noItem
  /\ UNCHANGED answered
  /\ UNCHANGED changeRead

\* ------------------------------------------------------------ reachability
\* A TextDocument object that neither the store nor a suspended request holds, and a
\* settled Thenable that the cache no longer holds, are unreachable: nothing reads them
\* again, and their contents are dropped.
droppedPull == [uri |-> "", doc |-> 0, sentAfter |-> 0, state |-> "dropped",
                value |-> nullSettings]

collectObjs(os, docs, rs) ==
  [o \in DOMAIN os |->
     IF (\E u \in URIs : docs[u] = o) \/ (\E r \in DOMAIN rs : rs[r].doc = o)
     THEN os[o] ELSE <<>>]

collectPulls(ps, cache) ==
  [p \in DOMAIN ps |->
     IF ps[p].state = "pending" \/ (\E u \in URIs : cache[u] = p)
     THEN ps[p] ELSE droppedPull]

\* ------------------------------------------------------- document lifecycle
\* TextDocuments: didOpen creates a TextDocument object and stores it under its uri.
didOpen(uri, text) ==
  /\ phase = "initialized"
  /\ documents[uri] = 0
  /\ Len(objs) < MaxObjs
  /\ objs' = Append(objs, text)
  /\ documents' = [documents EXCEPT ![uri] = Len(objs) + 1]
  /\ responses' = <<>>
  /\ UNCHANGED <<phase, capVars, initResult, registrations, globalSettings, documentSettings,
                 pulls, reqs, received, refreshes, configChanges, validatorVars, peer>>
  /\ logged' = <<>>
  /\ completions' = <<>>
  /\ citem' = noItem
  /\ UNCHANGED answered
  /\ UNCHANGED changeRead

\* TextDocuments: didChange updates the stored object in place.
didChange(uri, text) ==
  /\ phase = "initialized"
  /\ documents[uri] # 0
  /\ objs[documents[uri]] # text
  /\ objs' = [objs EXCEPT ![documents[uri]] = text]
  /\ responses' = <<>>
  /\ UNCHANGED <<phase, capVars, initResult, registrations, globalSettings, documentSettings,
                 documents, pulls, reqs, received, refreshes, configChanges, validatorVars, peer>>
  /\ logged' = <<>>
  /\ completions' = <<>>
  /\ citem' = noItem
  /\ UNCHANGED answered
  /\ UNCHANGED changeRead

\* a request that is suspended holding the object the store has for uri sees it closed;
\* closedText records the text the object had then
markClosed(uri) ==
  [r \in DOMAIN reqs |->
     IF reqs[r].doc = documents[uri]
     THEN [reqs[r] EXCEPT !.closedWhileSuspended = TRUE, !.closedText = objs[reqs[r].doc]]
     ELSE reqs[r]]

\* (variant: the close handler leaves the cache entry of the closed document)
onDidCloseKeepsEntry(uri) ==
  /\ phase = "initialized"
  /\ documents[uri] # 0
  /\ documents' = [documents EXCEPT ![uri] = 0]
  /\ documentSettings' = documentSettings
  /\ reqs' = markClosed(uri)
  /\ objs' = collectObjs(objs, documents', reqs')
  /\ pulls' = collectPulls(pulls, documentSettings')
  /\ responses' = <<>>
  /\ UNCHANGED <<phase, capVars, initResult, registrations, globalSettings,
                 received, refreshes, configChanges, validatorVars, peer>>
  /\ logged' = <<>>
  /\ completions' = <<>>
  /\ citem' = noItem
  /\ UNCHANGED answered
  /\ UNCHANGED changeRead

\* TextDocuments drops the object from the store, then documents.onDidClose runs.
onDidClose(uri) ==
  /\ phase = "initialized"
  /\ documents[uri] # 0
  /\ documents' = [documents EXCEPT ![uri] = 0]
  /\ documentSettings' = [documentSettings EXCEPT ![uri] = 0]
  /\ reqs' = markClosed(uri)
  /\ objs' = collectObjs(objs, documents', reqs')
  /\ pulls' = collectPulls(pulls, documentSettings')
  /\ responses' = <<>>
  /\ UNCHANGED <<phase, capVars, initResult, registrations, globalSettings,
                 received, refreshes, configChanges, validatorVars, peer>>
  /\ logged' = <<>>
  /\ completions' = <<>>
  /\ citem' = noItem
  /\ UNCHANGED answered
  /\ UNCHANGED changeRead

\* --------------------------------------------------------- settings cache
cacheKeys(cache) == {u \in URIs : cache[u] # 0}
emptyCache == [u \in URIs |-> 0]

\* change.settings as the peer can send it: null, an object without the
\* strudelLanguageServer section, or an object with it
SectionSettings == {settingsOf(0), settingsOf(2)}
ConfigurationChanges ==
  {[settingsNull |-> TRUE, hasSection |-> FALSE, section |-> nullSettings],
   [settingsNull |-> FALSE, hasSection |-> FALSE, section |-> nullSettings]}
  \cup {[settingsNull |-> FALSE, hasSection |-> TRUE, section |-> s] : s \in SectionSettings}

\* conn.languages.diagnostics.refresh(), with the cache keys at the moment it is sent
refreshSent(cache) == Append(refreshes, [cached |-> cacheKeys(cache)])

\* (variant: the cache is left as it is)
onDidChangeConfigurationKeepsCache(change) ==
  /\ phase = "initialized"
  /\ configChanges < (IF hasConfigurationCapability THEN MaxConfig ELSE MaxGlobalConfig)
  /\ configChanges' = configChanges + 1
  /\ IF hasConfigurationCapability
     THEN /\ refreshes' = refreshSent(documentSettings)
          /\ UNCHANGED <<globalSettings, documentSettings>>
     ELSE IF change.settingsNull
          THEN UNCHANGED <<globalSettings, documentSettings, refreshes>>
          ELSE /\ globalSettings' = IF change.hasSection THEN change.section
                                    ELSE defaultSettings
               /\ refreshes' = refreshSent(documentSettings)
               /\ UNCHANGED documentSettings
  /\ pulls' = collectPulls(pulls, documentSettings')
  /\ responses' = <<>>
  /\ UNCHANGED <<phase, capVars, initResult, registrations, documents, objs, reqs,
                 received, validatorVars, peer>>
  /\ logged' = <<>>
  /\ completions' = <<>>
  /\ citem' = noItem
  /\ UNCHANGED answered
  /\ changeRead' = IF hasConfigurationCapability THEN changeRead ELSE change

\* (variant: the global settings are assigned whatever the capability)
onDidChangeConfigurationSetsGlobal(change) ==
  /\ phase = "initialized"
  /\ configChanges < (IF hasConfigurationCapability THEN MaxConfig ELSE MaxGlobalConfig)
  /\ configChanges' = configChanges + 1
  /\ IF change.settingsNull /\ ~hasConfigurationCapability
     THEN UNCHANGED <<globalSettings, documentSettings, refreshes>>
     ELSE /\ documentSettings' = IF hasConfigurationCapability THEN emptyCache
                                 ELSE documentSettings
          /\ globalSettings' = IF change.hasSection THEN change.section ELSE defaultSettings
          /\ refreshes' = refreshSent(documentSettings')
  /\ pulls' = collectPulls(pulls, documentSettings')
  /\ responses' = <<>>
  /\ UNCHANGED <<phase, capVars, initResult, registrations, documents, objs, reqs,
                 received, validatorVars, peer>>
  /\ logged' = <<>>
  /\ completions' = <<>>
  /\ citem' = noItem
  /\ UNCHANGED answered
  /\ changeRead' = IF hasConfigurationCapability THEN changeRead ELSE change

onDidChangeConfiguration(change) ==
  /\ phase = "initialized"
  /\ configChanges < (IF hasConfigurationCapability THEN MaxConfig ELSE MaxGlobalConfig)
  /\ configChanges' = configChanges + 1
  /\ IF hasConfigurationCapability
     THEN /\ documentSettings' = emptyCache
          /\ refreshes' = refreshSent(documentSettings')
          /\ UNCHANGED globalSettings
     ELSE IF change.settingsNull
          \* change.settings.strudelLanguageServer throws on null: the handler ends there
          THEN UNCHANGED <<globalSettings, documentSettings, refreshes>>
          ELSE /\ globalSettings' = IF change.hasSection THEN change.section
                                    ELSE defaultSettings
               /\ refreshes' = refreshSent(documentSettings)
               /\ UNCHANGED documentSettings
  /\ pulls' = collectPulls(pulls, documentSettings')
  /\ responses' = <<>>
  /\ UNCHANGED <<phase, capVars, initResult, registrations, documents, objs, reqs,
                 received, validatorVars, peer>>
  /\ logged' = <<>>
  /\ completions' = <<>>
  /\ citem' = noItem
  /\ UNCHANGED answered
  /\ changeRead' = IF hasConfigurationCapability THEN changeRead ELSE change

\* a new workspace/configuration request for resource; doc and sentAfter record which
\* TextDocument object and how many configuration changes it was sent after
newPull(resource) ==
  [uri |-> resource, doc |-> documents[resource], sentAfter |-> configChanges,
   state |-> "pending", value |-> nullSettings]

\* (variant: the Thenable of a miss is not stored in the Map)
getDocumentSettingsNoStore(resource) ==
  IF ~hasConfigurationCapability
  THEN [pull |-> 0, sent |-> FALSE, pulls |-> pulls, documentSettings |-> documentSettings]
  ELSE IF documentSettings[resource] # 0
       THEN [pull |-> documentSettings[resource], sent |-> FALSE, pulls |-> pulls,
             documentSettings |-> documentSettings]
       ELSE [pull |-> Len(pulls) + 1, sent |-> TRUE,
             pulls |-> Append(pulls, newPull(resource)),
             documentSettings |-> documentSettings]

\* getDocumentSettings: the handle returned (0: the settled global settings), whether
\* a configuration request was sent for it, and the pulls and cache it leaves
getDocumentSettings(resource) ==
  IF ~hasConfigurationCapability
  THEN [pull |-> 0, sent |-> FALSE, pulls |-> pulls, documentSettings |-> documentSettings]
  ELSE IF documentSettings[resource] # 0
       THEN [pull |-> documentSettings[resource], sent |-> FALSE, pulls |-> pulls,
             documentSettings |-> documentSettings]
       ELSE [pull |-> Len(pulls) + 1, sent |-> TRUE,
             pulls |-> Append(pulls, newPull(resource)),
             documentSettings |-> [documentSettings EXCEPT ![resource] = Len(pulls) + 1]]

\* ------------------------------------------------------------- diagnostics
\* (variant: the store is looked up again on resumption, a closed document reports nothing)
resumeValidationLooksUpAgain(req, rejected, settings) ==
  IF rejected
  THEN [req EXCEPT !.status = "done", !.response = RejectedResponse]
  ELSE IF documents[req.uri] # req.doc
  THEN [req EXCEPT !.status = "done", !.settings = settings, !.response = FullReport(<<>>)]
  ELSE LET v == validateTextDocument(req.uri, objs[req.doc], settings,
                                     hasDiagnosticRelatedInformationCapability)
       IN [req EXCEPT !.status = "done", !.settings = settings,
                      !.response = IF v.threw THEN FailedResponse ELSE FullReport(v.items)]

\* validateTextDocument resumes after the await: a rejected lookup fails the request,
\* otherwise the captured TextDocument object is scanned as it is now
resumeValidation(req, rejected, settings) ==
  IF rejected
  THEN [req EXCEPT !.status = "done", !.response = RejectedResponse]
  ELSE LET v == validateTextDocument(req.uri, objs[req.doc], settings,
                                     hasDiagnosticRelatedInformationCapability)
       IN [req EXCEPT !.status = "done", !.settings = settings,
                      !.response = IF v.threw THEN FailedResponse ELSE FullReport(v.items)]

newRequest(uri, doc, pull, sent) ==
  [uri |-> uri, doc |-> doc, pull |-> pull, sentPull |-> sent,
   receivedAfter |-> configChanges, closedWhileSuspended |-> FALSE, closedText |-> <<>>,
   status |-> "awaiting", settings |-> nullSettings, response |-> NoResponse]

\* the handler up to its first suspension on a pending pull, or to its end
startValidation(uri, doc, g) ==
  LET req == newRequest(uri, doc, g.pull, g.sent)
  IN IF g.pull = 0 THEN resumeValidation(req, FALSE, globalSettings)
     ELSE IF g.pulls[g.pull].state = "pending" THEN req
     ELSE resumeValidation(req, g.pulls[g.pull].state = "rejected", g.pulls[g.pull].value)

unknownDocument(uri) ==
  [newRequest(uri, 0, 0, FALSE) EXCEPT !.status = "done", !.response = FullReport(<<>>)]

\* (variant: the settings are fetched before the document is looked up)
diagnosticsOnFetchesFirst(uri) ==
  /\ phase = "initialized"
  /\ received < MaxReqs
  /\ received' = received + 1
  /\ LET g == getDocumentSettings(uri)
     IN /\ pulls' = g.pulls
        /\ documentSettings' = g.documentSettings
        /\ IF documents[uri] # 0
           THEN LET req == startValidation(uri, documents[uri], g)
                IN /\ reqs' = IF req.status = "awaiting" THEN Append(reqs, req) ELSE reqs
                   /\ responses' = IF req.status = "awaiting" THEN <<>> ELSE <<req>>
           ELSE /\ responses' = <<unknownDocument(uri)>>
                /\ UNCHANGED reqs
  /\ UNCHANGED <<phase, capVars, initResult, registrations, globalSettings, documents, objs,
                 refreshes, configChanges, validatorVars, peer>>
  /\ logged' = <<>>
  /\ completions' = <<>>
  /\ citem' = noItem
  /\ answered' = answered + Len(responses')
  /\ UNCHANGED changeRead

\* conn.languages.diagnostics.on: one textDocument/diagnostic request for uri
diagnosticsOn(uri) ==
  /\ phase = "initialized"
  /\ received < MaxReqs
  /\ received' = received + 1
  /\ IF documents[uri] # 0
     THEN LET g == getDocumentSettings(uri)
              req == startValidation(uri, documents[uri], g)
          IN /\ pulls' = g.pulls
             /\ documentSettings' = g.documentSettings
             /\ reqs' = IF req.status = "awaiting" THEN Append(reqs, req) ELSE reqs
             /\ responses' = IF req.status = "awaiting" THEN <<>> ELSE <<req>>
     ELSE /\ responses' = <<unknownDocument(uri)>>
          /\ UNCHANGED <<pulls, documentSettings, reqs>>
  /\ UNCHANGED <<phase, capVars, initResult, registrations, globalSettings, documents, objs,
                 refreshes, configChanges, validatorVars, peer>>
  /\ logged' = <<>>
  /\ completions' = <<>>
  /\ citem' = noItem
  /\ answered' = answered + Len(responses')
  /\ UNCHANGED changeRead

awaits(req, p) == req.pull = p
notAwaits(req, p) == req.pull # p

\* (variant: only the first request suspended on pull p resumes)
resumeAllFirstOnly(p, rejected, settings) ==
  LET waiting == SelectSeq(reqs, LAMBDA req : awaits(req, p))
  IN [k \in DOMAIN waiting \cap {1} |-> resumeValidation(waiting[k], rejected, settings)]

\* the requests suspended on pull p resume, in order, before the next message is handled
resumeAll(p, rejected, settings) ==
  LET waiting == SelectSeq(reqs, LAMBDA req : awaits(req, p))
  IN [k \in DOMAIN waiting |-> resumeValidation(waiting[k], rejected, settings)]

stillSuspended(p) == SelectSeq(reqs, LAMBDA req : notAwaits(req, p))

\* (variant: the answer of a pull is stored in the cache when it arrives)
configurationResolvedStores(p, settings) ==
  /\ pulls[p].state = "pending"
  /\ documentSettings' = [documentSettings EXCEPT ![pulls[p].uri] = p]
  /\ pulls' = collectPulls([pulls EXCEPT ![p].state = "resolved", ![p].value = settings],
                           documentSettings')
  /\ responses' = resumeAll(p, FALSE, settings)
  /\ reqs' = stillSuspended(p)
  /\ objs' = collectObjs(objs, documents, reqs')
  /\ UNCHANGED <<phase, capVars, initResult, registrations, globalSettings,
                 documents, received, refreshes, configChanges, validatorVars, peer>>
  /\ logged' = <<>>
  /\ completions' = <<>>
  /\ citem' = noItem
  /\ answered' = answered + Len(responses')
  /\ UNCHANGED changeRead

\* the peer answers the workspace/configuration request p
configurationResolved(p, settings) ==
  /\ pulls[p].state = "pending"
  /\ pulls' = collectPulls([pulls EXCEPT ![p].state = "resolved", ![p].value = settings],
                           documentSettings)
  /\ responses' = resumeAll(p, FALSE, settings)
  /\ reqs' = stillSuspended(p)
  /\ objs' = collectObjs(objs, documents, reqs')
  /\ UNCHANGED <<phase, capVars, initResult, registrations, globalSettings, documentSettings,
                 documents, received, refreshes, configChanges, validatorVars, peer>>
  /\ logged' = <<>>
  /\ completions' = <<>>
  /\ citem' = noItem
  /\ answered' = answered + Len(responses')
  /\ UNCHANGED changeRead

configurationRejected(p) ==
  /\ pulls[p].state = "pending"
  /\ pulls' = collectPulls([pulls EXCEPT ![p].state = "rejected"], documentSettings)
  /\ responses' = resumeAll(p, TRUE, nullSettings)
  /\ reqs' = stillSuspended(p)
  /\ objs' = collectObjs(objs, documents, reqs')
  /\ UNCHANGED <<phase, capVars, initResult, registrations, globalSettings, documentSettings,
                 documents, received, refreshes, configChanges, validatorVars, peer>>
  /\ logged' = <<>>
  /\ completions' = <<>>
  /\ citem' = noItem
  /\ answered' = answered + Len(responses')
  /\ UNCHANGED changeRead

\* ------------------------------------------------- watched files, completion
\* the handlers below touch no module state: they frame everything but their output
sessionUnchanged ==
  UNCHANGED <<phase, capVars, initResult, registrations, globalSettings, documentSettings,
              documents, objs, pulls, reqs, received, refreshes, configChanges, answered,
              changeRead, validatorVars, peer>>

\* conn.onDidChangeWatchedFiles, with the cache cleared as a configuration change does
onDidChangeWatchedFilesClearsCache ==
  /\ phase = "initialized"
  /\ logged' = <<"We received a file change event">>
  /\ documentSettings' = emptyCache
  /\ pulls' = collectPulls(pulls, emptyCache)
  /\ responses' = <<>>
  /\ completions' = <<>>
  /\ citem' = noItem
  /\ UNCHANGED <<phase, capVars, initResult, registrations, globalSettings, documents, objs,
                 reqs, received, refreshes, configChanges, answered, changeRead,
                 validatorVars, peer>>

\* conn.onDidChangeWatchedFiles: one console line
onDidChangeWatchedFiles ==
  /\ phase = "initialized"
  /\ logged' = <<"We received a file change event">>
  /\ responses' = <<>>
  /\ completions' = <<>>
  /\ citem' = noItem
  /\ sessionUnchanged

\* the handler onInitialized installs when the peer supports workspace folders
onDidChangeWorkspaceFolders ==
  /\ phase = "initialized"
  /\ "didChangeWorkspaceFolders" \in registrations
  /\ logged' = <<"Workspace folder change event received.">>
  /\ responses' = <<>>
  /\ completions' = <<>>
  /\ citem' = noItem
  /\ sessionUnchanged

\* conn.onCompletion: the same two items whatever the position
completionList ==
  <<completionItem("TypeScript", numberData(1)), completionItem("JavaScript", numberData(2))>>

onCompletion ==
  /\ phase = "initialized"
  /\ completions' = completionList
  /\ responses' = <<>>
  /\ logged' = <<>>
  /\ citem' = noItem
  /\ sessionUnchanged

withDetails(item, detail, documentation) ==
  [item EXCEPT !.hasDetail = TRUE, !.detail = detail,
               !.hasDocumentation = TRUE, !.documentation = documentation]

\* the resolve handler with == in place of ===
resolveItemLoose(item) ==
  IF item.data.type \in {"number", "string"} /\ item.data.value = 1
  THEN withDetails(item, "TypeScript details", "TypeScript documentation")
  ELSE IF item.data.type \in {"number", "string"} /\ item.data.value = 2
  THEN withDetails(item, "JavaScript details", "JavaScript documentation")
  ELSE item

\* the body of the resolve handler: the item it returns
resolveItem(item) ==
  IF item.data = numberData(1)
  THEN withDetails(item, "TypeScript details", "TypeScript documentation")
  ELSE IF item.data = numberData(2)
  THEN withDetails(item, "JavaScript details", "JavaScript documentation")
  ELSE item

\* conn.onCompletionResolve
onCompletionResolve(item) ==
  /\ phase = "initialized"
  /\ citem' = item
  /\ completions' = <<resolveItem(item)>>
  /\ responses' = <<>>
  /\ logged' = <<>>
  /\ sessionUnchanged

\* ----------------------------------------------------------- specification
\* the values of the variables that a specification does not use
noChange == [settingsNull |-> FALSE, hasSection |-> FALSE, section |-> nullSettings]
noCapabilities ==
  [workspace |-> [present |-> FALSE, configuration |-> "absent", workspaceFolders |-> "absent"],
   textDocument |-> [present |-> FALSE, publishDiagnostics |-> FALSE,
                     relatedInformation |-> "absent"]]

Init ==
  /\ phase = "constructed"
  /\ hasConfigurationCapability = FALSE
  /\ hasWorkspaceFolderCapability = FALSE
  /\ hasDiagnosticRelatedInformationCapability = FALSE
  /\ initResult = [returned |-> FALSE, workspaceFolders |-> FALSE]
  /\ registrations = {}
  /\ globalSettings = defaultSettings
  /\ documentSettings = emptyCache
  /\ documents = [u \in URIs |-> 0]
  /\ objs = <<>>
  /\ pulls = <<>>
  /\ reqs = <<>>
  /\ responses = <<>>
  /\ received = 0
  /\ refreshes = <<>>
  /\ configChanges = 0
  /\ answered = 0
  /\ changeRead = noChange
  /\ logged = <<>>
  /\ completions = <<>>
  /\ peer = noCapabilities
  /\ citem = noItem
  /\ vpc = "idle"
  /\ vtext = <<>>
  /\ vsettings = defaultSettings
  /\ vrelated = FALSE
  /\ vresult = [threw |-> FALSE, items |-> <<>>]

\* the items a session resolves: the ones the server listed
SessionItems == {completionList[i] : i \in DOMAIN completionList}

\* the payloads of a session: each flag takes both values; the workspace-folder flag,
\* which only the initialize result reads, goes with the related-information flag
SessionParams ==
  {p \in InitializeParams :
     /\ p.workspace.present /\ p.textDocument.present /\ p.textDocument.publishDiagnostics
     /\ p.workspace.configuration \in {"absent", "true"}
     /\ p.textDocument.relatedInformation \in {"absent", "true"}
     /\ p.workspace.workspaceFolders = p.textDocument.relatedInformation}

Next ==
  \/ \E params \in SessionParams : onInitialize(params)
  \/ onInitialized
  \/ \E uri \in URIs, text \in DocTexts : didOpen(uri, text)
  \/ \E uri \in URIs, text \in DocTexts : didChange(uri, text)
  \/ \E uri \in URIs : onDidClose(uri)
  \/ \E change \in ConfigurationChanges : onDidChangeConfiguration(change)
  \/ \E uri \in URIs : diagnosticsOn(uri)
  \/ \E p \in DOMAIN pulls, settings \in PeerSettings : configurationResolved(p, settings)
  \/ \E p \in DOMAIN pulls : configurationRejected(p)
  \/ onDidChangeWatchedFiles
  \/ onDidChangeWorkspaceFolders
  \/ onCompletion
  \/ \E item \in SessionItems : onCompletionResolve(item)

Spec == Init /\ [][Next]_vars

\* One call of the validator on an arbitrary text, cap and capability flag.
ValidatorSettings == {settingsOf(c) : c \in 0..MaxCap} \cup {defaultSettings}

InitValidate ==
  /\ phase = "initialized"
  /\ hasConfigurationCapability = FALSE
  /\ hasWorkspaceFolderCapability = FALSE
  /\ hasDiagnosticRelatedInformationCapability = FALSE
  /\ initResult = [returned |-> TRUE, workspaceFolders |-> FALSE]
  /\ registrations = {}
  /\ globalSettings = defaultSettings
  /\ documentSettings = emptyCache
  /\ documents = [u \in URIs |-> 0]
  /\ objs = <<>>
  /\ pulls = <<>>
  /\ reqs = <<>>
  /\ responses = <<>>
  /\ received = 0
  /\ refreshes = <<>>
  /\ configChanges = 0
  /\ answered = 0
  /\ changeRead = noChange
  /\ logged = <<>>
  /\ completions = <<>>
  /\ peer = noCapabilities
  /\ citem = noItem
  /\ vpc = "call"
  /\ vtext \in AllTexts
  /\ vsettings \in ValidatorSettings
  /\ vrelated \in BOOLEAN
  /\ vresult = [threw |-> FALSE, items |-> <<>>]

runValidate ==
  /\ vpc = "call"
  /\ vresult' = validateTextDocument("u1", vtext, vsettings, vrelated)
  /\ vpc' = "done"
  /\ UNCHANGED <<phase, capVars, initResult, registrations, globalSettings, documentSettings,
                 documents, objs, pulls, reqs, responses, received, refreshes, configChanges,
                 answered, changeRead, logged, completions, inputVars,
                 vtext, vsettings, vrelated>>

NextValidate == runValidate

SpecValidate == InitValidate /\ [][NextValidate]_vars

\* ================================================================== claims
pending(p) == pulls[p].state = "pending"

\* the uri of the textDocument/diagnostic request a step handles
requestedUri == IF Len(reqs') > Len(reqs) THEN reqs'[Len(reqs')].uri ELSE responses'[1].uri

C2_ClosedWhileSuspendedReportsNothing ==
  \A k \in DOMAIN responses :
    (responses[k].closedWhileSuspended /\ responses[k].response.kind = "full")
    => responses[k].response.items = <<>>

\* C2 amended: a request whose document was closed while it was suspended is not
\* failed by the close.  When its pull resolves to a settings object it answers with a
\* full report of min(matchCount, maxErrorCount) findings of the text the document had
\* when it was closed; it fails only when the pull is rejected, or resolves to null
\* while that text has a match.
C2_ClosedWhileSuspendedScansLastText ==
  \A k \in DOMAIN responses :
    LET r == responses[k]
    IN r.closedWhileSuspended =>
         IF r.response.error = "rejected" THEN r.response.kind = "failed"
         ELSE IF r.settings.isNull
              THEN IF matchCount(r.closedText) > 0
                   THEN r.response = FailedResponse
                   ELSE r.response = FullReport(<<>>)
              ELSE /\ r.response.kind = "full"
                   /\ Len(r.response.items) =
                        Min(matchCount(r.closedText), r.settings.maxErrorCount)

C2_Witness ==
  \E k \in DOMAIN responses :
    /\ responses[k].closedWhileSuspended
    /\ documents[responses[k].uri] = 0
    /\ responses[k].response.kind = "full"
    /\ Len(responses[k].response.items) = 1

\* ---- C3
\* C3 as stated: a rejected configuration pull fails only the diagnostics request that
\* sent it.
C3_RejectionFailsOnlyItsRequest ==
  \A k \in DOMAIN responses :
    responses[k].response.error = "rejected" => responses[k].sentPull

\* ---- C4
\* C4: the validator returns exactly min(matchCount(text), maxErrorCount) findings,
\* hence at most maxErrorCount, and reaching the cap is not an error.
C4_FindingCountIsMinOfMatchesAndCap ==
  vpc = "done" =>
    /\ ~vresult.threw
    /\ Len(vresult.items) = Min(matchCount(vtext), vsettings.maxErrorCount)
    /\ Len(vresult.items) <= vsettings.maxErrorCount

\* scenario 2: "AB CD EF" with a cap of 2 yields the findings for AB and CD
C4_Witness ==
  /\ vpc = "done"
  /\ vtext = Scenario2Text
  /\ vsettings.maxErrorCount = 2
  /\ matchCount(vtext) = 3
  /\ Len(vresult.items) = 2
  /\ vresult.items[1].message = <<"A", "B">> \o MessageSuffix
  /\ vresult.items[2].message = <<"C", "D">> \o MessageSuffix

\* ---- C5
\* C5: a diagnostics request for a uri that is not in the document store is answered
\* at once with a full report without items; the step sends no configuration request,
\* leaves the settings cache as it was and suspends nothing.
C5_UnknownDocumentReportsNothing ==
  [][(received' # received /\ documents[requestedUri] = 0)
       => /\ Len(responses') = 1
          /\ responses'[1].response = FullReport(<<>>)
          /\ pulls' = pulls
          /\ documentSettings' = documentSettings
          /\ reqs' = reqs]_vars

\* a document was opened and closed again, and a request for a uri not in the store
\* was answered
C5_Witness ==
  /\ Len(objs) >= 1
  /\ \A u \in URIs : documents[u] = 0
  /\ Len(responses) = 1
  /\ responses[1].doc = 0
  /\ responses[1].response = FullReport(<<>>)
  /\ hasConfigurationCapability

\* ---- C6
\* C6: with configuration pull supported, a configuration change leaves the settings
\* cache empty, and a diagnostics request for an open document that finds no entry for
\* its uri sends a new workspace/configuration request, which becomes the entry;
\* whatever was cached, the pull a request ends up with was sent after the latest
\* configuration change.
C6_InvalidateAllThenFreshPull ==
  [][hasConfigurationCapability =>
       /\ (configChanges' # configChanges) => documentSettings' = emptyCache
       /\ (received' # received /\ documents[requestedUri] # 0) =>
            LET u == requestedUri
            IN /\ documentSettings'[u] # 0
               /\ pulls'[documentSettings'[u]].sentAfter = configChanges
               /\ documentSettings[u] = 0 =>
                    /\ Len(pulls') = Len(pulls) + 1
                    /\ documentSettings'[u] = Len(pulls')
                    /\ pulls'[Len(pulls')].state = "pending"
                    /\ pulls'[Len(pulls')].uri = u]_vars

\* two pulls for one uri are pending, the later one sent after a configuration change
C6_Witness ==
  \E p \in DOMAIN pulls, q \in DOMAIN pulls :
    /\ pending(p) /\ pending(q)
    /\ pulls[p].uri = pulls[q].uri
    /\ pulls[p].sentAfter < pulls[q].sentAfter
    /\ documentSettings[pulls[q].uri] = q

\* ---- C7
\* C7 as stated: every configuration-change notification leaves the cache empty and
\* sends exactly one diagnostics refresh, after the invalidation.
C7_EveryChangeInvalidatesAndRefreshes ==
  /\ Len(refreshes) = configChanges
  /\ \A k \in DOMAIN refreshes : refreshes[k].cached = {}

\* ---- C8
\* C8: after initialization one settings source is in use.  Without configuration pull
\* no configuration request exists, the cache is empty, no request is ever suspended
\* and every validation ran with the global settings; with configuration pull the
\* global settings are still the default and every validation waits on, or ran with
\* the result of, a pull.
C8_OneSettingsSource ==
  phase = "initialized" =>
    IF ~hasConfigurationCapability
    THEN /\ pulls = <<>>
         /\ documentSettings = emptyCache
         /\ reqs = <<>>
         /\ \A k \in DOMAIN responses :
              responses[k].doc # 0 =>
                /\ responses[k].pull = 0
                /\ responses[k].settings = globalSettings
    ELSE /\ globalSettings = defaultSettings
         /\ \A r \in DOMAIN reqs : reqs[r].pull # 0
         /\ \A k \in DOMAIN responses : responses[k].doc # 0 => responses[k].pull # 0

C8_Witness ==
  /\ ~hasConfigurationCapability
  /\ globalSettings = settingsOf(2)
  /\ \E k \in DOMAIN responses :
       /\ responses[k].doc # 0
       /\ responses[k].settings = globalSettings
       /\ Len(responses[k].response.items) = 2

\* ---- C9
\* the range of a finding decoded through the offset table
decodedStart(text, f) == offsetAt(text, f.range.start)
decodedEnd(text, f) == offsetAt(text, f.range.end)
decodedWord(text, f) == SubSeq(text, decodedStart(text, f) + 1, decodedEnd(text, f))

\* the findings are in text order without overlap, each range decodes to a whole word
\* of two or more uppercase letters, and message and source are as specified
findingsOrderedAndExact(text, items) ==
  \A k \in DOMAIN items :
    LET f == items[k]
        word == decodedWord(text, f)
    IN /\ Len(word) >= 2
       /\ \A c \in DOMAIN word : word[c] \in UpperChars
       /\ ~isWordAt(text, decodedStart(text, f))
       /\ ~isWordAt(text, decodedEnd(text, f) + 1)
       /\ f.range.start = positionAt(text, decodedStart(text, f))
       /\ f.range.end = positionAt(text, decodedStart(text, f) + Len(word))
       /\ f.message = word \o MessageSuffix
       /\ f.source = "strudel"
       /\ k > 1 => decodedEnd(text, items[k - 1]) < decodedStart(text, f)

\* C9 as stated: findings in text order, ranges that decode to the matched word,
\* the message, severity warning and source "strudel".
C9_FindingsOrderedExactAndWarnings ==
  vpc = "done" =>
    /\ findingsOrderedAndExact(vtext, vresult.items)
    /\ \A k \in DOMAIN vresult.items :
         protocolSeverity(vresult.items[k].severity) = "Warning"

\* C9 without the severity: order, ranges, message and source
C9_FindingsOrderedAndExact ==
  vpc = "done" =>
    /\ findingsOrderedAndExact(vtext, vresult.items)
    /\ (vtext = Scenario1Text /\ vsettings = defaultSettings) =>
         /\ Len(vresult.items) = 1
         /\ decodedStart(vtext, vresult.items[1]) = 4
         /\ decodedEnd(vtext, vresult.items[1]) = 7
         /\ vresult.items[1].message = <<"A", "B", "C">> \o MessageSuffix

\* ---- C10
\* C10: every finding of every response carries relatedInformation exactly when the
\* related-information capability was negotiated, and then two entries, each with the
\* range of the finding.
C10_RelatedInformationIffCapability ==
  \A k \in DOMAIN responses :
    \A n \in DOMAIN responses[k].response.items :
      LET f == responses[k].response.items[n]
      IN /\ ("relatedInformation" \in DOMAIN f) = hasDiagnosticRelatedInformationCapability
         /\ hasDiagnosticRelatedInformationCapability =>
              /\ Len(f.relatedInformation) = 2
              /\ \A e \in DOMAIN f.relatedInformation :
                   f.relatedInformation[e].location.range = f.range

C10_Witness ==
  /\ hasDiagnosticRelatedInformationCapability
  /\ \E k \in DOMAIN responses :
       /\ Len(responses[k].response.items) = 2
       /\ Len(responses[k].response.items[2].relatedInformation) = 2

\* ---------------------------------------------------------------- negotiation
\* The initialize request alone, on every capabilities payload.
InitNegotiate ==
  /\ phase = "constructed"
  /\ hasConfigurationCapability = FALSE
  /\ hasWorkspaceFolderCapability = FALSE
  /\ hasDiagnosticRelatedInformationCapability = FALSE
  /\ initResult = [returned |-> FALSE, workspaceFolders |-> FALSE]
  /\ registrations = {}
  /\ globalSettings = defaultSettings
  /\ documentSettings = emptyCache
  /\ documents = [u \in URIs |-> 0]
  /\ objs = <<>>
  /\ pulls = <<>>
  /\ reqs = <<>>
  /\ responses = <<>>
  /\ received = 0
  /\ refreshes = <<>>
  /\ configChanges = 0
  /\ answered = 0
  /\ changeRead = noChange
  /\ logged = <<>>
  /\ completions = <<>>
  /\ peer \in InitializeParams
  /\ citem = noItem
  /\ vpc = "idle"
  /\ vtext = <<>>
  /\ vsettings = defaultSettings
  /\ vrelated = FALSE
  /\ vresult = [threw |-> FALSE, items |-> <<>>]

NextNegotiate ==
  \/ onInitialize(peer)
  \/ onInitialized

SpecNegotiate == InitNegotiate /\ [][NextNegotiate]_vars

\* ---- C11
\* the value the payload carries at a path, "absent" when the field or a parent is missing
configurationField == IF peer.workspace.present THEN peer.workspace.configuration ELSE "absent"
workspaceFoldersField ==
  IF peer.workspace.present THEN peer.workspace.workspaceFolders ELSE "absent"
relatedInformationField ==
  IF peer.textDocument.present /\ peer.textDocument.publishDiagnostics
  THEN peer.textDocument.relatedInformation ELSE "absent"

\* C11: the initialize request is answered with a result, never an error; each of the
\* three flags is true exactly when the payload carries its field with a truthy value
\* (so false when the field or one of its parents is absent); the result advertises
\* workspace folders exactly when the workspace-folder flag is true.
C11_NegotiationNeverFails ==
  phase # "constructed" =>
    /\ initResult.returned
    /\ hasConfigurationCapability = (configurationField = "true")
    /\ hasWorkspaceFolderCapability = (workspaceFoldersField = "true")
    /\ hasDiagnosticRelatedInformationCapability = (relatedInformationField = "true")
    /\ initResult.workspaceFolders = hasWorkspaceFolderCapability

\* a payload without the workspace field: answered, folders not advertised
C11_Witness ==
  /\ phase = "initialized"
  /\ ~peer.workspace.present
  /\ peer.textDocument.relatedInformation = "true"
  /\ initResult.returned
  /\ ~initResult.workspaceFolders
  /\ ~hasWorkspaceFolderCapability
  /\ ~hasConfigurationCapability
  /\ hasDiagnosticRelatedInformationCapability

\* ----------------------------------------------------------------- completion
\* the items a peer may send to resolve: any label, any data, with or without the
\* optional fields
ItemData == {undefinedData, stringData(1), stringData(2)} \cup {numberData(n) : n \in 0..3}
ItemDetails == {"", "TypeScript details", "old details"}
ItemDocumentations == {"", "JavaScript documentation", "old documentation"}
CompletionItems ==
  {[completionItem(label, data) EXCEPT !.hasDetail = (detail # ""), !.detail = detail,
                                       !.hasDocumentation = (doc # ""), !.documentation = doc] :
     label \in {"TypeScript", "other"}, data \in ItemData,
     detail \in ItemDetails, doc \in ItemDocumentations}

NextCompletion ==
  \/ onInitialize(noCapabilities)
  \/ onInitialized
  \/ onCompletion
  \/ \E item \in CompletionItems : onCompletionResolve(item)
  \/ \E i \in DOMAIN completions : onCompletionResolve(completions[i])

SpecCompletion == Init /\ [][NextCompletion]_vars

\* ---- C12
\* C12: resolve returns a candidate whose identifier is not the number 1 or 2 unchanged,
\* with no detail or documentation added; for 1 or 2 it attaches that identifier's fixed
\* detail and documentation and changes nothing else; resolving a candidate that resolve
\* returned yields the same candidate.
C12_ResolveAttachesFixedTextOnly ==
  [][Len(completions') = 1 =>
       LET item == citem'
           result == completions'[1]
       IN /\ item.data \notin {numberData(1), numberData(2)} => result = item
          /\ item.data = numberData(1) =>
               result = [item EXCEPT !.hasDetail = TRUE, !.detail = "TypeScript details",
                                     !.hasDocumentation = TRUE,
                                     !.documentation = "TypeScript documentation"]
          /\ item.data = numberData(2) =>
               result = [item EXCEPT !.hasDetail = TRUE, !.detail = "JavaScript details",
                                     !.hasDocumentation = TRUE,
                                     !.documentation = "JavaScript documentation"]
          /\ (Len(completions) = 1 /\ item = completions[1]) => result = item]_vars

\* a candidate with identifier 1 that came back from resolve is resolved again
C12_Witness ==
  /\ Len(completions) = 1
  /\ citem = completions[1]
  /\ citem.data = numberData(1)
  /\ citem.label = "TypeScript"
  /\ citem.documentation = "TypeScript documentation"

\* ---- C13
fileChangeLine == "We received a file change event"

\* C13: a watched-file-change notification changes no state: the capability flags, the
\* global settings, the settings cache and the document store are as before, and nothing
\* is sent to the peer (no configuration pull, no refresh, no registration, no response)
\* except the log line.
C13_WatchedFilesChangeNothing ==
  [][logged' = <<fileChangeLine>> =>
       /\ UNCHANGED <<capVars, globalSettings, documentSettings, documents, objs>>
       /\ UNCHANGED <<pulls, refreshes, registrations, reqs, received, answered>>
       /\ responses' = <<>>
       /\ completions' = <<>>]_vars

\* the notification was handled with a document open, its settings cached and a
\* diagnostics request suspended
C13_Witness ==
  /\ logged = <<fileChangeLine>>
  /\ \E u \in URIs : documents[u] # 0 /\ documentSettings[u] # 0
  /\ Len(reqs) > 0

\* ---- C14
\* C14: in every reachable state every key of the settings cache is the URI of a
\* document that is open, and the entry is the pull sent for that URI: closing removes
\* the entry, and nothing (a pull answered late included) creates one for a URI that is
\* not open.
C14_CacheKeysAreOpenDocuments ==
  \A u \in URIs :
    documentSettings[u] # 0 =>
      /\ documents[u] # 0
      /\ documentSettings[u] \in DOMAIN pulls
      /\ pulls[documentSettings[u]].uri = u

\* a pull was answered after its document closed: the request got its response and the
\* closed URI has no cache entry
C14_Witness ==
  \E k \in DOMAIN responses :
    /\ responses[k].closedWhileSuspended
    /\ responses[k].sentPull
    /\ documents[responses[k].uri] = 0
    /\ documentSettings[responses[k].uri] = 0

\* ---- C15
\* C15: with configuration pull supported, in every reachable state each cache entry is
\* a pull that was sent after the latest configuration change and for the document now
\* open under that URI (so after the latest close of the URI), and every diagnostics
\* request is served by a pull sent no earlier than the latest configuration change that
\* preceded the request.
C15_NoStaleCacheEntry ==
  hasConfigurationCapability =>
    /\ \A u \in URIs :
         documentSettings[u] # 0 =>
           /\ pulls[documentSettings[u]].sentAfter = configChanges
           /\ pulls[documentSettings[u]].doc = documents[u]
    /\ \A r \in DOMAIN reqs : pulls[reqs[r].pull].sentAfter = reqs[r].receivedAfter
    /\ \A k \in DOMAIN responses :
         LET r == responses[k]
         IN (r.doc # 0 /\ pulls[r.pull] # droppedPull) =>
              pulls[r.pull].sentAfter = r.receivedAfter

\* a request from before a configuration change is answered from its own pull while the
\* cache holds the pull sent after the change
C15_Witness ==
  /\ hasConfigurationCapability
  /\ configChanges = 1
  /\ \E u \in URIs :
       /\ documentSettings[u] # 0
       /\ pulls[documentSettings[u]].sentAfter = 1
       /\ \E k \in DOMAIN responses :
            responses[k].uri = u /\ responses[k].receivedAfter = 0

\* ---- C16
\* C16: the three capability flags are written only by the initialize request handler:
\* every step that changes one of them is that handler's step, and no step of any other
\* handler or of a pull's answer changes any of them.
C16_FlagsWrittenOnlyByInitialize ==
  [][capVars' # capVars => (phase = "constructed" /\ phase' = "initializing")]_vars

\* flags negotiated true are still true after a configuration change, a diagnostics
\* request that cached a pull, and a completion resolve
C16_Witness ==
  /\ hasConfigurationCapability
  /\ hasWorkspaceFolderCapability
  /\ hasDiagnosticRelatedInformationCapability
  /\ configChanges >= 1
  /\ \E u \in URIs : documentSettings[u] # 0
  /\ Len(completions) = 1

\* ------------------------------------------------------------- the peer answers
\* the peer answers pull p, with a settings value or with an error
answerPull(p) ==
  /\ p \in DOMAIN pulls
  /\ \/ configurationRejected(p)
     \/ \E settings \in PeerSettings : configurationResolved(p, settings)

\* the session with a peer that answers every workspace/configuration request
SpecFair == Spec /\ \A p \in 1..MaxReqs : WF_vars(answerPull(p))

\* ---- C17
\* C17: every diagnostics request gets exactly one response, a full report or a
\* failure: at any time each request received so far is either still suspended or has
\* been answered once, no response is sent without a request, and, the peer answering
\* every pull, the n-th request received is followed by an n-th response and no request
\* stays suspended.
C17_EveryRequestAnsweredOnce ==
  /\ [](answered + Len(reqs) = received)
  /\ [](\A k \in DOMAIN responses : responses[k].response.kind \in {"full", "failed"})
  /\ \A n \in 1..MaxReqs : (received >= n) ~> (answered >= n)
  /\ []<>(reqs = <<>>)

\* two requests for one URI were suspended on the same pull when the document closed;
\* the pull's answer produced both responses
C17_Witness ==
  /\ Len(responses) = 2
  /\ responses[1].uri = responses[2].uri
  /\ responses[1].closedWhileSuspended
  /\ answered = 2
  /\ received = 2
  /\ reqs = <<>>

\* ---- C18
\* the value the notification asks for: its strudelLanguageServer section, else the default
sectionOrDefault(change) == IF change.hasSection THEN change.section ELSE defaultSettings

\* C18 as stated: with configuration pull unsupported, after a configuration-change
\* notification the global settings are the notification's section if it has one and
\* the default settings otherwise, and every validation pass from then on runs with them.
C18_GlobalSettingsFollowNotification ==
  (~hasConfigurationCapability /\ configChanges >= 1) =>
    /\ globalSettings = sectionOrDefault(changeRead)
    /\ \A k \in DOMAIN responses :
         responses[k].doc # 0 => responses[k].settings = sectionOrDefault(changeRead)

\* what holds of the code: the same, for a notification whose settings are an object
C18_GlobalSettingsFollowSettingsObject ==
  (~hasConfigurationCapability /\ configChanges >= 1 /\ ~changeRead.settingsNull) =>
    /\ globalSettings = sectionOrDefault(changeRead)
    /\ \A k \in DOMAIN responses :
         responses[k].doc # 0 => responses[k].settings = sectionOrDefault(changeRead)
====
